---- MODULE Spec2Model ----
(***************************************************************************)
(* Nifty monthly options buyer (src/live_bot.py): the scan loop, the entry *)
(* gate, the per-position stop-loss state machine, the ledger counters and *)
(* the snapshot file, as a state machine.                                  *)
(*                                                                         *)
(* Units.  Prices (premium, ltp, stops, spot, strike) are whole points.    *)
(* Fractions of the configuration are kept exact by scaling: premium       *)
(* multiples in tenths (1.5 -> 15), implied volatility in tenths of a      *)
(* percent (21.5 -> 215), delta and gamma in 1/10000 (round(..., 4)),      *)
(* theta in 1/1000 (round(..., 3)), vega in 1/100 (round(..., 2)).         *)
(***************************************************************************)
EXTENDS Integers, Sequences, FiniteSets, TLC

\* ---------------------------------------------------------------- CONFIG
CAPITAL == 100000
LOT_SIZE == 65
MAX_TRADES_PER_MONTH == 8
SL_POINTS == 60
\* premium multiples, in tenths
RR_UPGRADE_1 == 15
RR_UPGRADE_2 == 17
RR_TARGET == 20
BREAKEVEN_BUFFER == 8
TRAIL_LOOSE_POINTS == 35
TRAIL_TIGHT_POINTS == 20
\* Greeks thresholds, scaled as stated above
DELTA_MIN == 4200
DELTA_MAX == 6200
GAMMA_MIN == 100
GAMMA_MAX == 280
THETA_MIN == -1600
THETA_MAX == -700
VEGA_MIN == 1000
VEGA_MAX == 2800
IV_MIN == 130
IV_MAX == 215
MIN_PREMIUM == 30
MAX_PREMIUM == 550
MIN_DTE_AT_ENTRY == 40
AVOID_LAST_WEEK_DAYS == 7
\* can_trade: "if consec_losses >= 3"
LOSS_PAUSE == 3
\* try_entry: round(spot / 50) * 50
STRIKE_STEP == 50

\* ---------------------------------------------------------------- bounds
\* entries of an expiry listing or an instrument listing given to try_entry alone
MaxListing == 3
\* entries (distinct entry timestamps) in a run of the rich market feed
MaxEntries == 1
\* entries in a run of the narrow market feed, enough to pass the monthly cap
MaxEntriesCap == 9
\* positions held at once in a run of the narrow market feed
MaxOpenCap == 2
\* process restarts in a run
MaxRestarts == 1

\* ---------------------------------------------------------------- values
\* Python's None and a present value, as sequences of length 0 and 1
None == << >>
Some(v) == << v >>
IsNone(x) == Len(x) = 0
Val(x) == x[1]

Max(a, b) == IF a >= b THEN a ELSE b
Last(s) == s[Len(s)]

\* ---------------------------------------------------------------- calendar
\* datetime.date arithmetic (proleptic Gregorian ordinals, Monday = 0)
IsLeap(y) == (y % 4 = 0) /\ ((y % 100 # 0) \/ (y % 400 = 0))

DaysInMonth(y, m) ==
    IF m = 2 THEN (IF IsLeap(y) THEN 29 ELSE 28)
    ELSE IF m \in {4, 6, 9, 11} THEN 30 ELSE 31

DaysBeforeYear(y) ==
    (y - 1) * 365 + ((y - 1) \div 4) - ((y - 1) \div 100) + ((y - 1) \div 400)

RECURSIVE DaysBeforeMonth(_, _)
DaysBeforeMonth(y, m) ==
    IF m = 1 THEN 0 ELSE DaysBeforeMonth(y, m - 1) + DaysInMonth(y, m - 1)

ToOrdinal(y, m, d) == DaysBeforeYear(y) + DaysBeforeMonth(y, m) + d

Weekday(ord) == (ord + 6) % 7

\* the date of an ordinal, as [y, m, d]
RECURSIVE YearOf(_, _)
YearOf(ord, y) == IF ord > DaysBeforeYear(y + 1) THEN YearOf(ord, y + 1) ELSE y

RECURSIVE MonthOf(_, _, _)
MonthOf(ord, y, m) ==
    IF m < 12 /\ ord > DaysBeforeYear(y) + DaysBeforeMonth(y, m + 1)
    THEN MonthOf(ord, y, m + 1) ELSE m

FromOrdinal(ord) ==
    LET y == YearOf(ord, 2000)
        m == MonthOf(ord, y, 1)
    IN  [y |-> y, m |-> m, d |-> ord - DaysBeforeYear(y) - DaysBeforeMonth(y, m)]

\* get_last_tuesday_dte(), for today = [y, m, d]
get_last_tuesday_dte(today) ==
    LET y == today.y
        m == today.m
        next_month == IF m = 12 THEN ToOrdinal(y + 1, 1, 1) ELSE ToOrdinal(y, m + 1, 1)
        last_day == next_month - 1
        offset == (Weekday(last_day) - 1) % 7
        last_tue0 == last_day - offset
        last_tue == IF FromOrdinal(last_tue0).m # m THEN last_tue0 - 7 ELSE last_tue0
    IN  last_tue - ToOrdinal(y, m, today.d)

\* ---------------------------------------------------------------- text
\* A string the code searches in is a sequence of one-character strings.
Digits == << "0", "1", "2", "3", "4", "5", "6", "7", "8", "9" >>
DigitChar(n) == Digits[n + 1]

RECURSIVE NumChars(_)
NumChars(n) ==
    IF n < 10 THEN << DigitChar(n) >> ELSE NumChars(n \div 10) \o << DigitChar(n % 10) >>

TwoDigits(n) == << DigitChar((n \div 10) % 10), DigitChar(n % 10) >>

\* exp_date.strftime('%b').upper()
MonthAbbr(m) ==
    << << "J", "A", "N" >>, << "F", "E", "B" >>, << "M", "A", "R" >>,
       << "A", "P", "R" >>, << "M", "A", "Y" >>, << "J", "U", "N" >>,
       << "J", "U", "L" >>, << "A", "U", "G" >>, << "S", "E", "P" >>,
       << "O", "C", "T" >>, << "N", "O", "V" >>, << "D", "E", "C" >> >>[m]

\* exp_date.strftime('%y')
YearCode(y) == TwoDigits(y % 100)

\* Python's "needle in hay" on strings
Contains(hay, needle) ==
    \E i \in 0 .. (Len(hay) - Len(needle)) : SubSeq(hay, i + 1, i + Len(needle)) = needle

\* The gateway's instrument names: NSE:NIFTY26FEB25750CE (monthly) and
\* NSE:NIFTY2621025750CE (weekly: year, month code, day).
Prefix == << "N", "S", "E", ":", "N", "I", "F", "T", "Y" >>
WeekMonthCode(m) ==
    << "1", "2", "3", "4", "5", "6", "7", "8", "9", "O", "N", "D" >>[m]
MonthlySymbol(ord, strike, cp) ==
    LET dt == FromOrdinal(ord)
    IN  Prefix \o YearCode(dt.y) \o MonthAbbr(dt.m) \o NumChars(strike) \o cp
WeeklySymbol(ord, strike, cp) ==
    LET dt == FromOrdinal(ord)
    IN  Prefix \o YearCode(dt.y) \o << WeekMonthCode(dt.m) >> \o TwoDigits(dt.d)
            \o NumChars(strike) \o cp
CE == << "C", "E" >>
PE == << "P", "E" >>

\* ---------------------------------------------------------------- clock
\* The instants at which the loop reads datetime.now(): [y, m, d, hour, minute].
Instants ==
    << [y |-> 2025, m |-> 12, d |-> 15, hour |-> 9, minute |-> 14],
       [y |-> 2025, m |-> 12, d |-> 15, hour |-> 9, minute |-> 15],
       [y |-> 2025, m |-> 12, d |-> 23, hour |-> 15, minute |-> 30],
       [y |-> 2026, m |-> 1, d |-> 2, hour |-> 10, minute |-> 0] >>

\* run_bot_logic: Indian market hours (9:15 to 3:30)
MarketOpen(now) ==
    \/ (now.hour = 9 /\ now.minute >= 15)
    \/ (10 <= now.hour /\ now.hour < 15)
    \/ (now.hour = 15 /\ now.minute <= 30)

TodayOrdinal(now) == ToOrdinal(now.y, now.m, now.d)

\* ---------------------------------------------------------------- gateway
\* fyers.quotes for the index: get_spot() returns the last price or None.
Spots == { None, Some(0), Some(25762), Some(25725) }

\* int(round(spot / 50) * 50): Python rounds halves to the even integer
target_strike(spot) ==
    LET q == spot \div STRIKE_STEP
        r == spot % STRIKE_STEP
        n == IF 2 * r < STRIKE_STEP THEN q
             ELSE IF 2 * r > STRIKE_STEP THEN q + 1
             ELSE IF q % 2 = 0 THEN q ELSE q + 1
    IN  n * STRIKE_STEP

\* The strikes the chain snapshots list.
ChainStrikes == { 25750 }

\* fyers.optionchain: the expiries ('expiry' parsed by int(float(..)), None when
\* it does not parse) and the instruments.  An expiry is the ordinal of its day;
\* a missing 'expiry' of an instrument reads as 0.
Expiries(t) ==
    { << [expiry |-> Some(t + 5)], [expiry |-> None], [expiry |-> Some(t + 45)],
         [expiry |-> Some(t + 75)] >>,
      << [expiry |-> Some(t + 5)], [expiry |-> Some(t + 12)] >> }

Instrument(k, e, ty, sym) ==
    [strike_price |-> k, expiry |-> e, option_type |-> ty, symbol |-> sym]

OptionLists(t, k) ==
    { \* the monthly call listed with its expiry timestamp
      << Instrument(k, t + 5, "CE", WeeklySymbol(t + 5, k, CE)),
         Instrument(k, t + 45, "PE", MonthlySymbol(t + 45, k, PE)),
         Instrument(k, t + 45, "CE", MonthlySymbol(t + 45, k, CE)) >>,
      \* the monthly call listed without a usable timestamp
      << Instrument(k, t + 5, "CE", WeeklySymbol(t + 5, k, CE)),
         Instrument(k, 0, "CE", MonthlySymbol(t + 45, k, CE)) >>,
      \* only the weekly
      << Instrument(k, t + 5, "CE", WeeklySymbol(t + 5, k, CE)) >> }

\* a response: s = "ok" with the data, s = "error", or s = "raise" when the call
\* (or reading the response) raises
Chains(t) ==
    { [s |-> "error", expiryData |-> << >>, optionsChain |-> << >>],
      [s |-> "raise", expiryData |-> << >>, optionsChain |-> << >>] }
    \cup { [s |-> "ok", expiryData |-> e, optionsChain |-> o] :
             e \in Expiries(t), o \in UNION { OptionLists(t, k) : k \in ChainStrikes } }

\* try_entry: the first expiry of the listing with dte >= MIN_DTE_AT_ENTRY,
\* as [ts, dte], or None
SelectExpiry(expiries, t) ==
    LET ok == { i \in 1 .. Len(expiries) :
                  /\ ~IsNone(expiries[i].expiry)
                  /\ Val(expiries[i].expiry) - t >= MIN_DTE_AT_ENTRY }
    IN  IF ok = {} THEN None
        ELSE LET i == CHOOSE j \in ok : \A h \in ok : j <= h
             IN  Some([ts |-> Val(expiries[i].expiry), dte |-> Val(expiries[i].expiry) - t])

\* try_entry: the first instrument of the listing at the strike, of type CE,
\* whose expiry is the target or whose symbol holds the month and year tokens;
\* its symbol, or << >> when there is none
ResolveSymbol(options, strike, ts) ==
    LET dt == FromOrdinal(ts)
        hit(i) == /\ options[i].strike_price = strike
                  /\ options[i].option_type = "CE"
                  /\ \/ options[i].expiry = ts
                     \/ /\ Contains(options[i].symbol, MonthAbbr(dt.m))
                        /\ Contains(options[i].symbol, YearCode(dt.y))
        ok == { i \in 1 .. Len(options) : hit(i) }
    IN  IF ok = {} THEN << >>
        ELSE options[CHOOSE j \in ok : \A h \in ok : j <= h].symbol

\* fyers.quotes for an instrument: get_option_quote() returns None (no answer,
\* or the call raised) or the last price and implied volatility
Quote(ltp, iv) == Some([ltp |-> ltp, iv |-> iv])

\* py_vollib's analytical greeks as get_greeks rounds them; every field None
\* when the library raises
Greeks(d, g, th, v) == [delta |-> d, gamma |-> g, theta_daily |-> th, vega |-> v]
GreeksUnavailable == Greeks(None, None, None, None)
GreekLib ==
    { Greeks(Some(5200), Some(150), Some(-1000), Some(2000)),
      Greeks(Some(3000), Some(150), Some(-1000), Some(2000)),
      GreeksUnavailable }

\* get_greeks(flag, spot, strike, dte, iv_pct): lib is what the library returns
get_greeks(flag, dte, lib) ==
    IF dte <= 0
    THEN Greeks(Some(IF flag = "c" THEN 10000 ELSE -10000), Some(0), Some(0), Some(0))
    ELSE lib

\* filter_entry with the upper bound of the implied volatility left out
filter_entry_IvOpenAbove(greeks, premium, iv, dte) ==
    IF IsNone(greeks.delta) THEN "False"
    ELSE IF ~(DELTA_MIN <= Val(greeks.delta) /\ Val(greeks.delta) <= DELTA_MAX) THEN "False"
    ELSE IF IsNone(greeks.gamma) THEN "TypeError"
    ELSE IF ~(GAMMA_MIN <= Val(greeks.gamma) /\ Val(greeks.gamma) <= GAMMA_MAX) THEN "False"
    ELSE IF IsNone(greeks.theta_daily) THEN "TypeError"
    ELSE IF ~(THETA_MIN <= Val(greeks.theta_daily) /\ Val(greeks.theta_daily) <= THETA_MAX)
    THEN "False"
    ELSE IF IsNone(greeks.vega) THEN "TypeError"
    ELSE IF ~(VEGA_MIN <= Val(greeks.vega) /\ Val(greeks.vega) <= VEGA_MAX) THEN "False"
    ELSE IF ~(IV_MIN <= iv) THEN "False"
    ELSE IF ~(MIN_PREMIUM <= premium /\ premium <= MAX_PREMIUM) THEN "False"
    ELSE IF ~(dte >= MIN_DTE_AT_ENTRY) THEN "False"
    ELSE "True"

\* filter_entry(greeks, premium, iv, dte): "True" or "False", the value it
\* returns, or "TypeError" where it raises.  The chain of "and" is evaluated
\* from the left and stops at the first comparison that is false; a comparison
\* of a number with None raises.
filter_entry(greeks, premium, iv, dte) ==
    IF IsNone(greeks.delta) THEN "False"
    ELSE IF ~(DELTA_MIN <= Val(greeks.delta) /\ Val(greeks.delta) <= DELTA_MAX) THEN "False"
    ELSE IF IsNone(greeks.gamma) THEN "TypeError"
    ELSE IF ~(GAMMA_MIN <= Val(greeks.gamma) /\ Val(greeks.gamma) <= GAMMA_MAX) THEN "False"
    ELSE IF IsNone(greeks.theta_daily) THEN "TypeError"
    ELSE IF ~(THETA_MIN <= Val(greeks.theta_daily) /\ Val(greeks.theta_daily) <= THETA_MAX)
    THEN "False"
    ELSE IF IsNone(greeks.vega) THEN "TypeError"
    ELSE IF ~(VEGA_MIN <= Val(greeks.vega) /\ Val(greeks.vega) <= VEGA_MAX) THEN "False"
    ELSE IF ~(IV_MIN <= iv /\ iv <= IV_MAX) THEN "False"
    ELSE IF ~(MIN_PREMIUM <= premium /\ premium <= MAX_PREMIUM) THEN "False"
    ELSE IF ~(dte >= MIN_DTE_AT_ENTRY) THEN "False"
    ELSE "True"

\* ---------------------------------------------------------------- state
VARIABLES
    feed,               \* the market feed of the run: prices it quotes, size of the run
    pc,                 \* where run_bot_logic is: boot, loop, entry, manage, sleep
    clk,                \* index in Instants of datetime.now()
    stamp,              \* entry timestamps issued so far (entry_time of the last entry)
    restarts,           \* process restarts so far
    virtual_positions,
    trade_history,
    monthly_trades,
    consec_losses,
    current_month,
    equity_curve,
    todo,               \* manage_positions: entry_time of the positions of the copy left to visit
    state_file,         \* STATE_FILE: [kind |-> missing | corrupt | json, data]
    trade_log,          \* TRADE_LOG_FILE: the records appended
    write_failed,       \* whether a file write of the run has failed
    obs                 \* the step just taken and the quote it consumed

ledger == << virtual_positions, trade_history, monthly_trades, consec_losses,
             current_month, equity_curve >>
vars == << feed, pc, clk, stamp, restarts, virtual_positions, trade_history,
           monthly_trades, consec_losses, current_month, equity_curve, todo,
           state_file, trade_log, write_failed, obs >>

now == Instants[clk]

\* A write ends "ok", fails before the file is opened ("fail_open": the file
\* is as it was) or fails after open(STATE_FILE, 'w') truncated it
\* ("fail_write": the file no longer parses).
SaveOutcomes == { "ok", "fail_open", "fail_write" }
LogOutcomes == { "ok", "fail" }

RichFeed ==
    [premiums |-> { 100, 120 },
     quotes |-> { 0, 95, 118, 151, 171, 181, 205 },
     maxEntries |-> MaxEntries, maxOpen |-> MaxEntries,
     saves |-> SaveOutcomes, logs |-> LogOutcomes]
NarrowFeed ==
    [premiums |-> { 120 },
     quotes |-> { 0, 30 },
     maxEntries |-> MaxEntriesCap, maxOpen |-> MaxOpenCap,
     saves |-> { "ok" }, logs |-> { "ok" }]
\* a fault-free feed for runs that hold two positions at once, with quotes that
\* are missing, zero, below the stop and high enough to raise it
PairFeed ==
    [premiums |-> { 120 },
     quotes |-> { 0, 30, 181, 205 },
     maxEntries |-> MaxOpenCap, maxOpen |-> MaxOpenCap,
     saves |-> { "ok" }, logs |-> { "ok" }]

Observed(op, id, q) == [op |-> op, id |-> id, quote |-> q]

\* ---------------------------------------------------------------- files
\* save_state: the dictionary written
Document(vp, th, mt, cl, cm, eq) ==
    [virtual_positions |-> vp, trade_history |-> th, monthly_trades |-> mt,
     consec_losses |-> cl, current_month |-> cm, equity_curve |-> eq]

\* A JSON text, as the value it denotes.
JNull == [j |-> "null"]
JNumber(n) == [j |-> "number", v |-> n]
JString(str) == [j |-> "string", v |-> str]
JArray(items) == [j |-> "array", v |-> items]
JObject(members) == [j |-> "object", v |-> members]

\* json.dump of the values the ledger holds: None, numbers, strings (status,
\* symbol, the ISO entry_time), lists and dictionaries with string keys
DumpOptional(x) == IF IsNone(x) THEN JNull ELSE JNumber(Val(x))
DumpGreeks(g) == JObject([k \in DOMAIN g |-> DumpOptional(g[k])])
DumpPosition(pos) ==
    JObject([k \in DOMAIN pos |->
               CASE k = "greeks" -> DumpGreeks(pos[k])
                 [] k \in { "symbol", "status", "entry_time" } -> JString(pos[k])
                 [] OTHER -> JNumber(pos[k])])
DumpPositions(list) == JArray([i \in 1 .. Len(list) |-> DumpPosition(list[i])])
DumpNumbers(list) == JArray([i \in 1 .. Len(list) |-> JNumber(list[i])])

\* json.dump(data) that leaves 'consec_losses' out of the dictionary
json_dump_NoLosses(doc) ==
    JObject([virtual_positions |-> DumpPositions(doc.virtual_positions),
             trade_history |-> DumpPositions(doc.trade_history),
             monthly_trades |-> JNumber(doc.monthly_trades),
             current_month |-> JNumber(doc.current_month),
             equity_curve |-> DumpNumbers(doc.equity_curve)])

\* save_state: json.dump(data, f, default=str)
json_dump(doc) ==
    JObject([virtual_positions |-> DumpPositions(doc.virtual_positions),
             trade_history |-> DumpPositions(doc.trade_history),
             monthly_trades |-> JNumber(doc.monthly_trades),
             consec_losses |-> JNumber(doc.consec_losses),
             current_month |-> JNumber(doc.current_month),
             equity_curve |-> DumpNumbers(doc.equity_curve)])

\* json.load: null is None, a number or a string is itself, an array a list,
\* an object a dictionary
LoadOptional(j) == IF j.j = "null" THEN None ELSE Some(j.v)
LoadGreeks(j) == [k \in DOMAIN j.v |-> LoadOptional(j.v[k])]
LoadPosition(j) ==
    [k \in DOMAIN j.v |-> IF k = "greeks" THEN LoadGreeks(j.v[k]) ELSE j.v[k].v]
LoadPositions(j) == [i \in 1 .. Len(j.v) |-> LoadPosition(j.v[i])]
LoadNumbers(j) == [i \in 1 .. Len(j.v) |-> j.v[i].v]
json_load(j) ==
    [k \in DOMAIN j.v |->
       CASE k \in { "virtual_positions", "trade_history" } -> LoadPositions(j.v[k])
         [] k = "equity_curve" -> LoadNumbers(j.v[k])
         [] OTHER -> j.v[k].v]

\* save_state with the file ending as io says
save_state(io, doc) ==
    CASE io = "ok" -> [kind |-> "json", data |-> Some(json_dump(doc))]
      [] io = "fail_open" -> state_file
      [] io = "fail_write" -> [kind |-> "corrupt", data |-> None]

\* data.get(key, default)
Get(data, key, default) == IF key \in DOMAIN data THEN data[key] ELSE default

\* load_state(): the globals after it, from the file, the globals g before it
\* and the calendar month m.  A file that is missing, or that json.load
\* rejects, assigns nothing.
load_state(file, g, m) ==
    IF file.kind # "json" THEN g
    ELSE LET data == json_load(Val(file.data))
         IN  Document(Get(data, "virtual_positions", << >>),
                      Get(data, "trade_history", << >>),
                      Get(data, "monthly_trades", 0),
                      Get(data, "consec_losses", 0),
                      Get(data, "current_month", m),
                      Get(data, "equity_curve", << CAPITAL >>))

\* write_failed after one more write that ended io
Failed(io) == write_failed \/ io # "ok"

\* ---------------------------------------------------------------- ledger
\* is_new_month() that forgets to reset consec_losses
is_new_month_KeepsLosses(mt, cl, cm, m) ==
    IF m # cm
    THEN [monthly_trades |-> 0, consec_losses |-> cl, current_month |-> m, rolled |-> TRUE]
    ELSE [monthly_trades |-> mt, consec_losses |-> cl, current_month |-> cm, rolled |-> FALSE]

\* is_new_month(): the counters after the check, for calendar month m
is_new_month(mt, cl, cm, m) ==
    IF m # cm
    THEN [monthly_trades |-> 0, consec_losses |-> 0, current_month |-> m, rolled |-> TRUE]
    ELSE [monthly_trades |-> mt, consec_losses |-> cl, current_month |-> cm, rolled |-> FALSE]

\* can_trade() with the monthly cap tested by > instead of >=
can_trade_CapOffByOne(mt, cl, today) ==
    IF mt > MAX_TRADES_PER_MONTH THEN FALSE
    ELSE IF cl >= LOSS_PAUSE THEN FALSE
    ELSE IF get_last_tuesday_dte(today) <= AVOID_LAST_WEEK_DAYS THEN FALSE
    ELSE TRUE

\* can_trade(), after is_new_month()
can_trade(mt, cl, today) ==
    IF mt >= MAX_TRADES_PER_MONTH THEN FALSE
    ELSE IF cl >= LOSS_PAUSE THEN FALSE
    ELSE IF get_last_tuesday_dte(today) <= AVOID_LAST_WEEK_DAYS THEN FALSE
    ELSE TRUE

\* try_entry: entry_record
EntryRecord(symbol, premium, greeks, iv, dte, t) ==
    [symbol |-> symbol, entry_premium |-> premium, qty |-> LOT_SIZE, entry_time |-> t,
     current_sl |-> premium - SL_POINTS, status |-> "open",
     greeks |-> greeks, iv |-> iv, dte |-> dte]

\* manage_positions: pos after the stop was hit at ltp
ClosedRecord(pos, ltp) ==
    [symbol |-> pos.symbol, entry_premium |-> pos.entry_premium, qty |-> pos.qty,
     entry_time |-> pos.entry_time, current_sl |-> pos.current_sl,
     status |-> "closed_sl", greeks |-> pos.greeks, iv |-> pos.iv, dte |-> pos.dte,
     exit_premium |-> ltp, pnl_rs |-> (0 - SL_POINTS) * LOT_SIZE]

\* the quote test without "or quote['ltp'] == 0"
QuoteUsable_ZeroLive(q) == ~IsNone(q)

\* manage_positions: "if not quote or quote['ltp'] == 0: continue"
QuoteUsable(q) == ~IsNone(q) /\ Val(q).ltp # 0

\* manage_positions: "if ltp <= pos['current_sl']"
StopHit(pos, ltp) == ltp <= pos.current_sl

\* new_sl with the tiers tested from the lowest up
new_sl_LowestTierFirst(pos, ltp) ==
    LET e == pos.entry_premium
        reaches(tier) == IF e > 0 THEN 10 * ltp >= tier * e ELSE 0 >= tier
    IN  IF reaches(RR_UPGRADE_1) THEN e + BREAKEVEN_BUFFER
        ELSE IF reaches(RR_UPGRADE_2) THEN ltp - TRAIL_LOOSE_POINTS
        ELSE IF reaches(RR_TARGET) THEN ltp - TRAIL_TIGHT_POINTS
        ELSE pos.current_sl

\* manage_positions: new_sl.  mult = ltp / entry_premium is compared with the
\* tiers exactly, in tenths
new_sl(pos, ltp) ==
    LET e == pos.entry_premium
        reaches(tier) == IF e > 0 THEN 10 * ltp >= tier * e ELSE 0 >= tier
    IN  IF reaches(RR_TARGET) THEN ltp - TRAIL_TIGHT_POINTS
        ELSE IF reaches(RR_UPGRADE_2) THEN ltp - TRAIL_LOOSE_POINTS
        ELSE IF reaches(RR_UPGRADE_1) THEN e + BREAKEVEN_BUFFER
        ELSE pos.current_sl

\* the stop update without its "new_sl > pos['current_sl']" test
Trail_Unguarded(pos, ltp) == [pos EXCEPT !.current_sl = new_sl(pos, ltp)]

\* manage_positions: "if new_sl > pos['current_sl']: pos['current_sl'] = new_sl"
Trail(pos, ltp) ==
    IF new_sl(pos, ltp) > pos.current_sl
    THEN [pos EXCEPT !.current_sl = new_sl(pos, ltp)]
    ELSE pos

\* the loop of manage_positions left by "return" where it has "continue"
Continue_Returns(td) == [pc |-> "manage", todo |-> << >>]

\* manage_positions: "continue", the loop goes on with the positions left
Continue(td) == [pc |-> "manage", todo |-> Tail(td)]

\* list.remove(x): without the first element equal to x
Remove(list, x) ==
    LET hits == { i \in 1 .. Len(list) : list[i] = x }
        i == CHOOSE j \in hits : \A h \in hits : j <= h
    IN  IF hits = {} THEN list
        ELSE SubSeq(list, 1, i - 1) \o SubSeq(list, i + 1, Len(list))

\* the place in virtual_positions of the position object the loop holds
PlaceOf(list, t) == CHOOSE i \in 1 .. Len(list) : list[i].entry_time = t

EntryTimes(list) == [i \in 1 .. Len(list) |-> list[i].entry_time]

\* ---------------------------------------------------------------- entry
\* The instrument quotes an entry attempt can meet.
EntryQuotes ==
    { None, Quote(0, 150), Quote(MIN_PREMIUM - 1, 150), Quote(MAX_PREMIUM + 1, 150) }
    \cup { Quote(p, 150) : p \in feed.premiums }
    \cup { Quote(p, IV_MAX + 1) : p \in feed.premiums }

\* try_entry, lines 263-328: the instrument the attempt resolves from the spot
\* and the chain, as [symbol, dte], or None where it returns early
Resolve(spot, chain) ==
    IF IsNone(spot) \/ Val(spot) = 0 THEN None
    ELSE IF chain.s # "ok" THEN None
    ELSE LET sel == SelectExpiry(chain.expiryData, TodayOrdinal(now))
         IN  IF IsNone(sel) THEN None
             ELSE LET sym == ResolveSymbol(chain.optionsChain,
                                           target_strike(Val(spot)), Val(sel).ts)
                  IN  IF sym = << >> THEN None
                      ELSE Some([symbol |-> sym, dte |-> Val(sel).dte])

\* try_entry, lines 330-358: the entry record built for the resolved instrument
\* from its quote and greeks (without its entry_time), or None where the
\* attempt returns early or filter_entry raises into try_entry's except
Candidate(res, q, lib) ==
    IF IsNone(res) THEN None
    ELSE IF IsNone(q) THEN None
    ELSE IF Val(q).ltp < MIN_PREMIUM \/ Val(q).ltp > MAX_PREMIUM THEN None
    ELSE LET greeks == get_greeks("c", Val(res).dte, lib)
         IN  IF filter_entry(greeks, Val(q).ltp, Val(q).iv, Val(res).dte) # "True" THEN None
             ELSE Some(EntryRecord(Val(res).symbol, Val(q).ltp, greeks, Val(q).iv,
                                   Val(res).dte, 0))

\* what the attempts of this instant can build, over the gateway's answers
Candidates ==
    LET resolved == { Resolve(spot, chain) :
                        spot \in Spots, chain \in Chains(TodayOrdinal(now)) }
    IN  { Candidate(res, q, lib) : res \in resolved, q \in EntryQuotes, lib \in GreekLib }

\* ---------------------------------------------------------------- actions
\* the globals with equity_curve starting empty
Globals_NoSeed(m) ==
    /\ virtual_positions' = << >>
    /\ trade_history' = << >>
    /\ monthly_trades' = 0
    /\ consec_losses' = 0
    /\ current_month' = m
    /\ equity_curve' = << >>

\* The module's globals as the interpreter sets them when the process starts.
Globals(m) ==
    /\ virtual_positions' = << >>
    /\ trade_history' = << >>
    /\ monthly_trades' = 0
    /\ consec_losses' = 0
    /\ current_month' = m
    /\ equity_curve' = << CAPITAL >>

InitWith(f) ==
    /\ feed = f
    /\ pc = "boot"
    /\ clk = 1
    /\ stamp = 0
    /\ restarts = 0
    /\ virtual_positions = << >>
    /\ trade_history = << >>
    /\ monthly_trades = 0
    /\ consec_losses = 0
    /\ current_month = Instants[1].m
    /\ equity_curve = << CAPITAL >>
    /\ todo = << >>
    /\ state_file = [kind |-> "missing", data |-> None]
    /\ trade_log = << >>
    /\ write_failed = FALSE
    /\ obs = Observed("start", 0, None)

Init == InitWith(RichFeed)
InitCap == InitWith(NarrowFeed)
InitPair == InitWith(PairFeed)

\* the loop without its "except Exception": an error ends the thread
OnError_Uncaught == "dead"

\* run_bot_logic: where an exception raised inside the cycle leaves the loop:
\* at "except Exception", which prints it, and then time.sleep(300)
OnError == "sleep"

\* run_bot_logic: load_state()
LoadState ==
    /\ pc = "boot"
    /\ LET g == Document(virtual_positions, trade_history, monthly_trades, consec_losses,
                         current_month, equity_curve)
           l == load_state(state_file, g, now.m)
       IN  /\ virtual_positions' = l.virtual_positions
           /\ trade_history' = l.trade_history
           /\ monthly_trades' = l.monthly_trades
           /\ consec_losses' = l.consec_losses
           /\ current_month' = l.current_month
           /\ equity_curve' = l.equity_curve
    /\ pc' = "loop"
    /\ obs' = Observed("load_state", 0, None)
    /\ UNCHANGED << feed, clk, stamp, restarts, todo, state_file, trade_log, write_failed >>

\* run_bot_logic: an iteration outside market hours
MarketClosed ==
    /\ pc = "loop"
    /\ ~MarketOpen(now)
    /\ pc' = "sleep"
    /\ obs' = Observed("closed", 0, None)
    /\ UNCHANGED << feed, clk, stamp, restarts, ledger, todo, state_file, trade_log,
                    write_failed >>

\* run_bot_logic: "if can_trade():" in market hours.  is_new_month() saves on a
\* rollover; a failing save raises to the loop's except and ends the cycle.
ScanCanTrade ==
    /\ pc = "loop"
    /\ MarketOpen(now)
    /\ \E io \in feed.saves :
         LET c == is_new_month(monthly_trades, consec_losses, current_month, now.m)
             doc == Document(virtual_positions, trade_history, c.monthly_trades,
                             c.consec_losses, c.current_month, equity_curve)
         IN  /\ monthly_trades' = c.monthly_trades
             /\ consec_losses' = c.consec_losses
             /\ current_month' = c.current_month
             /\ state_file' = IF c.rolled THEN save_state(io, doc) ELSE state_file
             /\ write_failed' = IF c.rolled THEN Failed(io) ELSE write_failed
             /\ IF c.rolled /\ io # "ok"
                THEN pc' = OnError /\ todo' = << >>
                ELSE IF can_trade(c.monthly_trades, c.consec_losses, now)
                THEN pc' = "entry" /\ todo' = << >>
                ELSE pc' = "manage" /\ todo' = EntryTimes(virtual_positions)
    /\ obs' = Observed("can_trade", 0, None)
    /\ UNCHANGED << feed, clk, stamp, restarts, virtual_positions, trade_history,
                    equity_curve, trade_log >>

\* run_bot_logic: try_entry(), then the start of manage_positions().  The
\* can_trade() try_entry calls first reads the same instant as the loop's, so
\* its is_new_month() finds the month already current.  A failing save_state is
\* swallowed by try_entry's except.
TryEntry ==
    /\ pc = "entry"
    /\ \E cand \in Candidates, io \in feed.saves :
         LET c == is_new_month(monthly_trades, consec_losses, current_month, now.m)
             enters == can_trade(c.monthly_trades, c.consec_losses, now) /\ ~IsNone(cand)
             rec == [Val(cand) EXCEPT !.entry_time = stamp + 1]
             vp == Append(virtual_positions, rec)
         IN  /\ enters => (stamp < feed.maxEntries /\ Len(virtual_positions) < feed.maxOpen)
             /\ IF enters
                THEN /\ monthly_trades' = c.monthly_trades + 1
                     /\ consec_losses' = 0
                     /\ virtual_positions' = vp
                     /\ stamp' = stamp + 1
                     /\ state_file' = save_state(io, Document(vp, trade_history,
                                          c.monthly_trades + 1, 0, c.current_month,
                                          equity_curve))
                     /\ write_failed' = Failed(io)
                ELSE /\ monthly_trades' = c.monthly_trades
                     /\ consec_losses' = c.consec_losses
                     /\ UNCHANGED << virtual_positions, stamp, state_file, write_failed >>
             /\ current_month' = c.current_month
             /\ todo' = EntryTimes(virtual_positions')
    /\ pc' = "manage"
    /\ obs' = Observed("try_entry", 0, None)
    /\ UNCHANGED << feed, clk, restarts, trade_history, equity_curve, trade_log >>

\* manage_positions: one iteration of "for pos in virtual_positions[:]".  The
\* copy holds the same objects, so pos is the element of virtual_positions
\* with its entry_time.  A failing log_trade or save_state raises to the
\* loop's except and ends the cycle.
ManagePosition ==
    /\ pc = "manage"
    /\ todo # << >>
    /\ LET i == PlaceOf(virtual_positions, Head(todo))
           pos == virtual_positions[i]
       IN  IF pos.status # "open"
           THEN /\ obs' = Observed("not_open", pos.entry_time, None)
                /\ todo' = Continue(todo).todo
                /\ pc' = Continue(todo).pc
                /\ UNCHANGED << ledger, state_file, trade_log, write_failed >>
           ELSE \E q \in { None } \cup { Quote(x, 150) : x \in feed.quotes },
                   lg \in feed.logs, io \in feed.saves :
                  /\ obs' = Observed("quote", pos.entry_time, q)
                  /\ IF ~QuoteUsable(q)
                     THEN /\ todo' = Continue(todo).todo
                          /\ pc' = Continue(todo).pc
                          /\ UNCHANGED << ledger, state_file, trade_log, write_failed >>
                     ELSE IF StopHit(pos, Val(q).ltp)
                     THEN LET closed == ClosedRecord(pos, Val(q).ltp)
                              marked == [virtual_positions EXCEPT ![i] = closed]
                              th == Append(trade_history, closed)
                              eq == Append(equity_curve, Last(equity_curve) + closed.pnl_rs)
                              vp == Remove(marked, closed)
                          IN  /\ trade_history' = th
                              /\ UNCHANGED << monthly_trades, current_month >>
                              /\ IF lg # "ok"
                                 THEN /\ virtual_positions' = marked
                                      /\ pc' = OnError
                                      /\ todo' = << >>
                                      /\ write_failed' = TRUE
                                      /\ UNCHANGED << consec_losses, equity_curve,
                                                      state_file, trade_log >>
                                 ELSE /\ trade_log' = Append(trade_log, closed)
                                      /\ consec_losses' = consec_losses + 1
                                      /\ equity_curve' = eq
                                      /\ virtual_positions' = vp
                                      /\ state_file' = save_state(io, Document(vp, th,
                                             monthly_trades, consec_losses + 1,
                                             current_month, eq))
                                      /\ write_failed' = Failed(io)
                                      /\ IF io # "ok"
                                         THEN pc' = OnError /\ todo' = << >>
                                         ELSE pc' = "manage" /\ todo' = Tail(todo)
                     ELSE /\ virtual_positions' =
                                [virtual_positions EXCEPT ![i] = Trail(pos, Val(q).ltp)]
                          /\ todo' = Tail(todo)
                          /\ pc' = "manage"
                          /\ UNCHANGED << trade_history, monthly_trades, consec_losses,
                                          current_month, equity_curve, state_file,
                                          trade_log, write_failed >>
    /\ UNCHANGED << feed, clk, stamp, restarts >>

\* run_bot_logic: save_state() after manage_positions(); a failure is caught
\* by the loop's except
ScanSaveState ==
    /\ pc = "manage"
    /\ todo = << >>
    /\ \E io \in feed.saves :
         /\ state_file' = save_state(io, Document(virtual_positions, trade_history,
                              monthly_trades, consec_losses, current_month, equity_curve))
         /\ write_failed' = Failed(io)
         /\ pc' = IF io = "ok" THEN "sleep" ELSE OnError
    /\ obs' = Observed("save_state", 0, None)
    /\ UNCHANGED << feed, clk, stamp, restarts, ledger, todo, trade_log >>

\* run_bot_logic: time.sleep(300); the next iteration reads the same
\* representative instant or the next one
Sleep ==
    /\ pc = "sleep"
    /\ \E c \in { clk, clk + 1 } : c <= Len(Instants) /\ clk' = c
    /\ pc' = "loop"
    /\ obs' = Observed("sleep", 0, None)
    /\ UNCHANGED << feed, stamp, restarts, ledger, todo, state_file, trade_log, write_failed >>

\* The process stops between two steps and is started again: the globals are
\* set anew and run_bot_logic starts over; the files stay.
Restart ==
    /\ pc # "boot"
    /\ restarts < MaxRestarts
    /\ restarts' = restarts + 1
    /\ \E c \in { clk, clk + 1 } : c <= Len(Instants) /\ clk' = c
    /\ Globals(Instants[clk'].m)
    /\ pc' = "boot"
    /\ todo' = << >>
    /\ obs' = Observed("restart", 0, None)
    /\ UNCHANGED << feed, stamp, state_file, trade_log, write_failed >>

Next ==
    \/ LoadState
    \/ MarketClosed
    \/ ScanCanTrade
    \/ TryEntry
    \/ ManagePosition
    \/ ScanSaveState
    \/ Sleep
    \/ Restart

\* the loop without restarts, for runs in which the process stays up
NextUp ==
    \/ LoadState
    \/ MarketClosed
    \/ ScanCanTrade
    \/ TryEntry
    \/ ManagePosition
    \/ ScanSaveState
    \/ Sleep

Spec == Init /\ [][Next]_vars
\* The thread of run_bot_logic keeps running while the process is up:
\* time.sleep returns and every call of the cycle returns or raises.  That is
\* weak fairness of each step of the loop; for ScanCanTrade and TryEntry it is
\* written out, []<>~ENABLED <<A>>_vars \/ []<><<A>>_vars, with the states
\* that enable the step in place of ENABLED.
ScanCanTradeEnabled == pc = "loop" /\ MarketOpen(now)
TryEntryEnabled == pc = "entry"
SpecLive ==
    /\ Init
    /\ [][Next]_vars
    /\ WF_vars(LoadState)
    /\ WF_vars(MarketClosed)
    /\ []<>~ScanCanTradeEnabled \/ []<><<ScanCanTrade>>_vars
    /\ []<>~TryEntryEnabled \/ []<><<TryEntry>>_vars
    /\ WF_vars(ManagePosition)
    /\ WF_vars(ScanSaveState)
    /\ WF_vars(Sleep)
SpecCap == InitCap /\ [][NextUp]_vars
SpecPair == InitPair /\ [][NextUp]_vars

\* ---------------------------------------------------------------- filter_entry alone
\* The values a greek, the implied volatility, the premium and the days to
\* expiry take around the thresholds of the filter.
Around(lo, hi) == { lo - 1, lo, hi, hi + 1 }
GreekValues(lo, hi) == { None } \cup { Some(v) : v \in Around(lo, hi) }
FilterInputs ==
    [greeks : [delta : GreekValues(DELTA_MIN, DELTA_MAX),
               gamma : GreekValues(GAMMA_MIN, GAMMA_MAX),
               theta_daily : GreekValues(THETA_MIN, THETA_MAX),
               vega : GreekValues(VEGA_MIN, VEGA_MAX)],
     premium : Around(MIN_PREMIUM, MAX_PREMIUM),
     iv : Around(IV_MIN, IV_MAX),
     dte : { MIN_DTE_AT_ENTRY - 1, MIN_DTE_AT_ENTRY, MIN_DTE_AT_ENTRY + 1 }]

\* the program at rest, about to make one call on the arguments inp
InitCall(inp, at) ==
    /\ feed = inp
    /\ pc = at
    /\ clk = 1
    /\ stamp = 0
    /\ restarts = 0
    /\ virtual_positions = << >>
    /\ trade_history = << >>
    /\ monthly_trades = 0
    /\ consec_losses = 0
    /\ current_month = Instants[1].m
    /\ equity_curve = << CAPITAL >>
    /\ todo = << >>
    /\ state_file = [kind |-> "missing", data |-> None]
    /\ trade_log = << >>
    /\ write_failed = FALSE
    /\ obs = Observed("start", 0, None)

InitFilter == \E inp \in FilterInputs : InitCall(inp, "filter")

\* one call of filter_entry(greeks, premium, iv, dte); obs keeps its outcome
FilterEntry ==
    /\ pc = "filter"
    /\ pc' = "filtered"
    /\ obs' = [op |-> "filter_entry", id |-> 0, quote |-> None,
                result |-> filter_entry(feed.greeks, feed.premium, feed.iv, feed.dte)]
    /\ UNCHANGED << feed, clk, stamp, restarts, ledger, todo, state_file, trade_log,
                    write_failed >>

NextFilter == FilterEntry
SpecFilter == InitFilter /\ [][NextFilter]_vars

\* ---------------------------------------------------------------- try_entry's chain reading alone
\* The listings of at most MaxListing distinct entries taken from a set.
Listings(S) ==
    UNION { { q \in [1 .. n -> S] : \A i, j \in 1 .. n : q[i] = q[j] => i = j } :
              n \in 0 .. MaxListing }

\* expiryData: an expiry that does not parse, and expiries 39, 40 and 75 days
\* after today
ListedExpiries(t) ==
    { [expiry |-> None], [expiry |-> Some(t + 39)], [expiry |-> Some(t + 40)],
      [expiry |-> Some(t + 75)] }

\* optionsChain around strike k, for the expiries at t + 40 and t + 75: the
\* monthly calls with their timestamp, the monthly call at t + 40 listed
\* without a timestamp, the next year's monthly call of the same month (whose
\* symbol holds the month name, and the year digits inside the strike), the
\* monthly put, a weekly call and the monthly call of the next strike
ListedOptions(t, k) ==
    { Instrument(k, t + 40, "CE", MonthlySymbol(t + 40, k, CE)),
      Instrument(k, t + 75, "CE", MonthlySymbol(t + 75, k, CE)),
      Instrument(k, 0, "CE", MonthlySymbol(t + 40, k, CE)),
      Instrument(k, t + 40 + 365, "CE", MonthlySymbol(t + 40 + 365, k, CE)),
      Instrument(k, t + 40, "PE", MonthlySymbol(t + 40, k, PE)),
      Instrument(k, t + 5, "CE", WeeklySymbol(t + 5, k, CE)),
      Instrument(k + STRIKE_STEP, t + 40, "CE", MonthlySymbol(t + 40, k + STRIKE_STEP, CE)) }

ChainInputs ==
    LET t == TodayOrdinal(Instants[1])
    IN  { [spot |-> Some(26010),
           chain |-> [s |-> "ok", expiryData |-> e, optionsChain |-> o]] :
            e \in Listings(ListedExpiries(t)), o \in Listings(ListedOptions(t, 26000)) }

InitChain == \E inp \in ChainInputs : InitCall(inp, "chain")

\* try_entry, lines 273-328, on one chain response; obs keeps the expiry it
\* selected and the instrument it resolved
ReadChain ==
    /\ pc = "chain"
    /\ pc' = "resolved"
    /\ obs' = [op |-> "resolve", id |-> 0, quote |-> None,
                selected |-> SelectExpiry(feed.chain.expiryData, TodayOrdinal(now)),
                resolved |-> Resolve(feed.spot, feed.chain)]
    /\ UNCHANGED << feed, clk, stamp, restarts, ledger, todo, state_file, trade_log,
                    write_failed >>

NextChain == ReadChain
SpecChain == InitChain /\ [][NextChain]_vars

\* ---------------------------------------------------------------- properties
\* the position with entry_time t in a list of positions (there is one)
Holds(list, t) == \E i \in 1 .. Len(list) : list[i].entry_time = t
PosOf(list, t) == list[PlaceOf(list, t)]

\* the step just taken fetched the quote of an open position
QuoteStep == obs'.op = "quote" /\ Holds(virtual_positions, obs'.id)
\* ... and the quote was a live one, with this last traded price
LiveQuoteStep == QuoteStep /\ ~IsNone(obs'.quote) /\ Val(obs'.quote).ltp # 0
Ltp == Val(obs'.quote).ltp

\* try_entry's second can_trade() never meets a month that is not current
EntryMonthCurrent == pc = "entry" => current_month = now.m

\* the entry times of the open set are distinct
EntryTimesDistinct ==
    \A i, j \in 1 .. Len(virtual_positions) :
        virtual_positions[i].entry_time = virtual_positions[j].entry_time => i = j

\* C1. Monotonic stop: over every step, whatever quote it consumed (missing,
\* zero, falling or rising), a position that is in the open set before and
\* after the step has a current_sl at least what it was.
C1_MonotonicStop ==
    [][\A i \in 1 .. Len(virtual_positions), j \in 1 .. Len(virtual_positions') :
          virtual_positions[i].entry_time = virtual_positions'[j].entry_time
          => virtual_positions'[j].current_sl >= virtual_positions[i].current_sl]_vars

\* a position whose stop was raised to 170 by a quote of 205 has just been
\* quoted 181, which earns the lower breakeven stop only, and kept its stop
C1_Witness ==
    /\ obs.op = "quote"
    /\ obs.quote = Quote(181, 150)
    /\ Holds(virtual_positions, obs.id)
    /\ PosOf(virtual_positions, obs.id).entry_premium = 120
    /\ PosOf(virtual_positions, obs.id).current_sl = 170

\* the stop a quote earns: the highest tier its multiple reaches
C4_Candidate(e, sl, ltp) ==
    IF ltp * 10 >= e * 20 THEN ltp - 20
    ELSE IF ltp * 10 >= e * 17 THEN ltp - 35
    ELSE IF ltp * 10 >= e * 15 THEN e + 8
    ELSE sl

\* C4. Ratchet correctness: a live quote above the stop leaves the position
\* open with stop max(currentStop, candidate), the candidate being ltp - 20
\* from twice the entry premium, else ltp - 35 from 1.7 times, else entry + 8
\* from 1.5 times, else the current stop.  From the initial stop of an entry
\* at 100: 151 gives 108, 171 gives 136, 205 gives 185.
C4_RatchetCorrect ==
    [][(LiveQuoteStep /\ Ltp > PosOf(virtual_positions, obs'.id).current_sl)
       => LET p == PosOf(virtual_positions, obs'.id)
              cand == C4_Candidate(p.entry_premium, p.current_sl, Ltp)
          IN  /\ Holds(virtual_positions', obs'.id)
              /\ PosOf(virtual_positions', obs'.id) =
                   [p EXCEPT !.current_sl = Max(p.current_sl, cand)]
              /\ (p.entry_premium = 100 /\ p.current_sl = 40 /\ Ltp = 151)
                   => PosOf(virtual_positions', obs'.id).current_sl = 108
              /\ (p.entry_premium = 100 /\ p.current_sl = 40 /\ Ltp = 171)
                   => PosOf(virtual_positions', obs'.id).current_sl = 136
              /\ (p.entry_premium = 100 /\ p.current_sl = 40 /\ Ltp = 205)
                   => PosOf(virtual_positions', obs'.id).current_sl = 185]_vars

\* an entry at 100 quoted 205 holds the tight trailing stop
C4_Witness ==
    /\ obs.op = "quote"
    /\ obs.quote = Quote(205, 150)
    /\ Holds(virtual_positions, obs.id)
    /\ PosOf(virtual_positions, obs.id).entry_premium = 100
    /\ PosOf(virtual_positions, obs.id).current_sl = 185
    /\ PosOf(virtual_positions, obs.id).status = "open"

\* C9. A missing quote is never a close signal: a step whose quote is
\* unavailable or has a last traded price of 0 leaves the open positions, the
\* history, consec_losses and the equity curve as they were.
C9_MissingQuoteSkips ==
    [][(QuoteStep /\ (obs'.quote = None \/ (obs'.quote # None /\ Val(obs'.quote).ltp = 0)))
       => /\ virtual_positions' = virtual_positions
          /\ trade_history' = trade_history
          /\ consec_losses' = consec_losses
          /\ equity_curve' = equity_curve]_vars

\* a position with a stop above 0 has just been quoted 0 and is still open
C9_Witness ==
    /\ obs.op = "quote"
    /\ obs.quote = Quote(0, 150)
    /\ Holds(virtual_positions, obs.id)
    /\ PosOf(virtual_positions, obs.id).status = "open"
    /\ PosOf(virtual_positions, obs.id).current_sl > 0

\* C10. Monthly rollover: the month check of a scan, when the calendar month
\* differs from current_month, sets monthly_trades and consec_losses to 0 and
\* current_month to the calendar month and leaves the history, the equity
\* curve and the open positions as they were; when the month is the same it
\* changes nothing, the state file included.
C10_MonthlyRollover ==
    [][obs'.op = "can_trade"
       => IF now.m # current_month
          THEN /\ monthly_trades' = 0
               /\ consec_losses' = 0
               /\ current_month' = now.m
               /\ trade_history' = trade_history
               /\ equity_curve' = equity_curve
               /\ virtual_positions' = virtual_positions
          ELSE /\ UNCHANGED ledger
               /\ state_file' = state_file]_vars

\* January's first check has run in a process that entered and was stopped
\* out in December: both counters were 1 and are 0, the history is kept
C10_Witness ==
    /\ obs.op = "can_trade"
    /\ restarts = 0
    /\ ~write_failed
    /\ current_month = 1
    /\ stamp = 1
    /\ Len(trade_history) = 1
    /\ Len(equity_curve) = 2
    /\ monthly_trades = 0
    /\ consec_losses = 0

\* C2. At-most-one close: a position that has a record in the history is
\* absent from virtual_positions, and the history holds one record of it.
C2_AtMostOneClose ==
    \A h \in 1 .. Len(trade_history) :
        /\ ~Holds(virtual_positions, trade_history[h].entry_time)
        /\ \A k \in 1 .. Len(trade_history) :
              trade_history[k].entry_time = trade_history[h].entry_time => k = h

\* C3. Stop-close effect: a live quote at or below the stop closes the
\* position in that step: one record is appended, with exit_premium the quote
\* and pnl_rs = -(SL_POINTS x qty), consec_losses grows by 1, the equity curve
\* gains its last entry less SL_POINTS x qty, the position leaves the open set
\* and its stop is as it was.  A quote above the stop closes nothing; for an
\* entry at 120 (stop 60), 118 changes nothing and 181 raises the stop to 128.
C3_StopCloseEffect ==
    [][LiveQuoteStep
       => LET p == PosOf(virtual_positions, obs'.id)
              loss == SL_POINTS * p.qty
          IN  IF Ltp <= p.current_sl
              THEN /\ Len(trade_history') = Len(trade_history) + 1
                   /\ SubSeq(trade_history', 1, Len(trade_history)) = trade_history
                   /\ Last(trade_history').entry_time = p.entry_time
                   /\ Last(trade_history').status = "closed_sl"
                   /\ Last(trade_history').exit_premium = Ltp
                   /\ Last(trade_history').pnl_rs = 0 - loss
                   /\ Last(trade_history').current_sl = p.current_sl
                   /\ consec_losses' = consec_losses + 1
                   /\ equity_curve' = Append(equity_curve, Last(equity_curve) - loss)
                   /\ ~Holds(virtual_positions', p.entry_time)
                   /\ Len(virtual_positions') = Len(virtual_positions) - 1
              ELSE /\ trade_history' = trade_history
                   /\ consec_losses' = consec_losses
                   /\ equity_curve' = equity_curve
                   /\ (p.entry_premium = 120 /\ p.current_sl = 60 /\ Ltp = 118)
                        => virtual_positions' = virtual_positions
                   /\ (p.entry_premium = 120 /\ p.current_sl = 60 /\ Ltp = 181)
                        => PosOf(virtual_positions', obs'.id).current_sl = 128]_vars

\* no position of vp has a record in th
Apart(vp, th) ==
    \A i \in 1 .. Len(vp), h \in 1 .. Len(th) : vp[i].entry_time # th[h].entry_time

\* C6. Close atomicity: where a cycle has ended, and in every snapshot the
\* state file holds, no position is both in the open set and in the history.
C6_CloseAtomic ==
    /\ pc = "sleep" => Apart(virtual_positions, trade_history)
    /\ state_file.kind = "json"
         => Apart(json_load(Val(state_file.data)).virtual_positions,
                  json_load(Val(state_file.data)).trade_history)

\* C7. Durability of committed events: while no write has failed, once the
\* process has loaded its state, the state file holds the ledger as it is after
\* every completed step (entry, stop-close, ratchet, rollover), so that a
\* restart at that point loads it.
C7_Durable ==
    (pc # "boot" /\ ~write_failed /\ stamp > 0)
    => /\ state_file.kind = "json"
       /\ json_load(Val(state_file.data)) =
            Document(virtual_positions, trade_history, monthly_trades,
                     consec_losses, current_month, equity_curve)

\* the step just taken opened a position
EntryStep == stamp' = stamp + 1

\* C5. Consecutive-loss pause: consec_losses grows by one on each stop-loss
\* close and falls only at a month rollover (the code has no other close);
\* hence once three positions in a row were stopped out in the calendar month
\* the run started in, no position is opened while that month lasts.
C5_LossPause ==
    [][/\ (LiveQuoteStep /\ Ltp <= PosOf(virtual_positions, obs'.id).current_sl)
            => consec_losses' = consec_losses + 1
       /\ consec_losses' < consec_losses
            => (obs'.op = "can_trade" /\ now.m # current_month)
       /\ (now.m = Instants[1].m /\ Len(trade_history) >= 3
             /\ \A h \in 1 .. Len(trade_history) : trade_history[h].status = "closed_sl")
            => ~EntryStep]_vars

\* the day of the month of its last Tuesday
C8_FinalTuesday(y, m) ==
    CHOOSE d \in 1 .. DaysInMonth(y, m) :
        /\ Weekday(ToOrdinal(y, m, d)) = 1
        /\ \A e \in (d + 1) .. DaysInMonth(y, m) : Weekday(ToOrdinal(y, m, e)) # 1

Filtered == obs.op = "filter_entry"

\* C11. Filter conjunction: on greeks that are all available, filter_entry
\* returns true exactly when delta, gamma, theta per day, vega, the implied
\* volatility and the premium each lie in their closed [min, max] interval and
\* the days to expiry are at least 40; so one failing condition among six
\* passing ones gives false, and a value equal to a min or a max passes.
C11_FilterConjunction ==
    (Filtered /\ \A g \in { feed.greeks.delta, feed.greeks.gamma, feed.greeks.theta_daily,
                             feed.greeks.vega } : g # None)
    => LET d == feed.greeks.delta[1]
           g == feed.greeks.gamma[1]
           th == feed.greeks.theta_daily[1]
           v == feed.greeks.vega[1]
           passed == { d \in 4200 .. 6200, g \in 100 .. 280, th \in -1600 .. -700,
                       v \in 1000 .. 2800, feed.iv \in 130 .. 215,
                       feed.premium \in 30 .. 550, feed.dte >= 40 }
       IN  /\ obs.result \in { "True", "False" }
           /\ obs.result = "True" <=> passed = { TRUE }

\* the filter has passed arguments that sit on a bound each: delta, theta and
\* the premium on their min, gamma, vega and the implied volatility on their
\* max, the days to expiry on their floor
C11_Witness ==
    /\ Filtered
    /\ obs.result = "True"
    /\ feed.greeks = Greeks(Some(DELTA_MIN), Some(GAMMA_MAX), Some(THETA_MIN), Some(VEGA_MAX))
    /\ feed.iv = IV_MAX
    /\ feed.premium = MIN_PREMIUM
    /\ feed.dte = MIN_DTE_AT_ENTRY

Ledger ==
    Document(virtual_positions, trade_history, monthly_trades, consec_losses,
             current_month, equity_curve)

\* C13. Snapshot round-trip: a step in which save_state has written the file
\* leaves a file from which load_state, whatever the globals and the month it
\* starts from, restores the ledger that was saved, field for field.
C13_RoundTrip ==
    [][(state_file' # state_file /\ state_file'.kind = "json")
       => \A m \in { 1, 12 } :
            load_state(state_file', Document(<< >>, << >>, 0, 0, m, << CAPITAL >>), m)
              = Ledger']_vars

\* the file holds a snapshot with an open position, a closed trade, both
\* counters above 0 and an equity curve of two entries, and loads as the ledger
C13_Witness ==
    /\ state_file.kind = "json"
    /\ Len(virtual_positions) >= 1
    /\ Len(trade_history) >= 1
    /\ monthly_trades >= 2
    /\ consec_losses >= 1
    /\ Len(equity_curve) = 2
    /\ load_state(state_file, Document(<< >>, << >>, 0, 0, 1, << CAPITAL >>), 1) = Ledger

\* C14. Load of a missing or corrupt store: load_state on a state file that is
\* missing or does not parse leaves the empty snapshot (no open position, no
\* history, both counters 0, equity_curve = [CAPITAL], the calendar month),
\* leaves the file as it is, and the process goes on to its loop.
C14_LoadEmpty ==
    [][(obs'.op = "load_state" /\ state_file.kind \in { "missing", "corrupt" })
       => /\ virtual_positions' = << >>
          /\ trade_history' = << >>
          /\ monthly_trades' = 0
          /\ consec_losses' = 0
          /\ equity_curve' = << 100000 >>
          /\ current_month' = now.m
          /\ state_file' = state_file
          /\ pc' = "loop"]_vars

\* a process that had opened a position and then lost its state file to a
\* failed write was started again and has loaded the empty snapshot
C14_Witness ==
    /\ obs.op = "load_state"
    /\ restarts = 1
    /\ stamp = 1
    /\ state_file.kind = "corrupt"
    /\ virtual_positions = << >>
    /\ monthly_trades = 0
    /\ equity_curve = << CAPITAL >>
    /\ pc = "loop"

\* C15. No fatal condition: whatever fails (spot, chain or quote fetch, the
\* trade log or the state file, an unmatched instrument), the loop reaches
\* its sleep again and again; a step keeps what it did to the ledger when its
\* save fails (an entry keeps its position and its count, a logged stop-close
\* its record, its loss count and its equity entry, the end-of-cycle save
\* changes nothing), and a save that succeeds writes the ledger as it then is.
C15_NoFatal ==
    /\ []<>(pc = "sleep")
    /\ [][/\ stamp' = stamp + 1
              => /\ Len(virtual_positions') = Len(virtual_positions) + 1
                 /\ Last(virtual_positions').entry_time = stamp'
                 /\ monthly_trades' = monthly_trades + 1
          /\ trade_log' # trade_log
              => /\ Len(trade_history') = Len(trade_history) + 1
                 /\ consec_losses' = consec_losses + 1
                 /\ Len(equity_curve') = Len(equity_curve) + 1
                 /\ Len(virtual_positions') = Len(virtual_positions) - 1
          /\ obs'.op = "save_state" => UNCHANGED ledger
          /\ (state_file' # state_file /\ state_file'.kind = "json")
              => json_load(state_file'.data[1]) = Ledger']_vars

\* the save of an entry failed, the position stayed in memory, and the save
\* at the end of a later cycle has written it
C15_Witness ==
    /\ write_failed
    /\ trade_history = << >>
    /\ clk > 2
    /\ obs.op = "save_state"
    /\ pc = "sleep"
    /\ Len(virtual_positions) = 1
    /\ state_file.kind = "json"
    /\ json_load(state_file.data[1]).virtual_positions = virtual_positions

\* C16. Per-instrument error isolation: a step whose quote fetch failed
\* leaves every other position of the cycle scheduled and untouched; the
\* positions are visited in turn, the cycle ends only when none is left, and a
\* position visited with a live quote gets its stop check (it is closed at or
\* below its stop) and otherwise its ratcheted stop.
C16_QuoteErrorIsolated ==
    /\ [](pc = "manage" => \A i \in 1 .. Len(todo) : Holds(virtual_positions, todo[i]))
    /\ [][/\ (QuoteStep /\ obs'.quote = None)
              => /\ pc' = "manage"
                 /\ todo' = Tail(todo)
                 /\ virtual_positions' = virtual_positions
          /\ QuoteStep => obs'.id = Head(todo)
          /\ (pc = "manage" /\ pc' # "manage") => todo = << >>
          /\ LiveQuoteStep
              => LET p == PosOf(virtual_positions, obs'.id)
                 IN  IF Ltp <= p.current_sl
                     THEN /\ ~Holds(virtual_positions', obs'.id)
                          /\ Last(trade_history').entry_time = obs'.id
                     ELSE PosOf(virtual_positions', obs'.id).current_sl
                            = Max(p.current_sl,
                                  C4_Candidate(p.entry_premium, p.current_sl, Ltp))]_vars

\* the fetch for the first of two open positions failed; the second was then
\* visited with a live quote in the same cycle and had its stop raised
C16_Witness ==
    /\ pc = "manage"
    /\ obs.op = "quote"
    /\ obs.quote # None
    /\ Len(virtual_positions) = 2
    /\ obs.id = virtual_positions[2].entry_time
    /\ virtual_positions[2].current_sl > virtual_positions[2].entry_premium - SL_POINTS
    /\ virtual_positions[1].current_sl = virtual_positions[1].entry_premium - SL_POINTS

\* s is an initial part of t
IsPrefix(s, t) == Len(s) <= Len(t) /\ SubSeq(t, 1, Len(s)) = s

\* C17. Append-only ledger: equity_curve always has one entry more than
\* trade_history, and every step of the running process (entry, stop-close,
\* ratchet, month rollover, save) keeps the entries both already have, adding
\* only at the end.
C17_AppendOnly ==
    /\ [](Len(equity_curve) = 1 + Len(trade_history))
    /\ [][obs'.op \notin { "restart", "load_state" }
              => /\ IsPrefix(equity_curve, equity_curve')
                 /\ IsPrefix(trade_history, trade_history')]_vars

\* try_entry has read the chain response of feed
Resolved == obs.op = "resolve"

\* C18. Instrument resolution: with an expiry selected, the symbol resolved is
\* that of a call at the ATM strike listed with the selected expiry whenever
\* the listing has one, wherever it stands; it is one matched by the month and
\* year tokens only when the listing has none with that expiry; with no match
\* the attempt resolves nothing.
C18_ExactFirst ==
    (Resolved /\ obs.selected # None)
    => LET o == feed.chain.optionsChain
           ts == obs.selected[1].ts
           day == FromOrdinal(ts)
           calls == { i \in 1 .. Len(o) : o[i].strike_price = 26000 /\ o[i].option_type = "CE" }
           exact == { i \in calls : o[i].expiry = ts }
           token == { i \in calls : /\ Contains(o[i].symbol, MonthAbbr(day.m))
                                     /\ Contains(o[i].symbol, YearCode(day.y)) }
       IN  IF exact # {} THEN /\ obs.resolved # None
                              /\ \E i \in exact : obs.resolved[1].symbol = o[i].symbol
           ELSE IF token # {} THEN /\ obs.resolved # None
                                   /\ \E i \in token : obs.resolved[1].symbol = o[i].symbol
           ELSE obs.resolved = None

\* C19. Expiry selection: the expiry selected from a listing, whatever its
\* order, is the one with the fewest days to expiry among those with at least
\* 40; with none of at least 40 days nothing is selected and nothing resolved.
C19_NearestExpiry ==
    Resolved
    => LET e == feed.chain.expiryData
           t == TodayOrdinal(Instants[1])
           ok == { i \in 1 .. Len(e) : e[i].expiry # None /\ e[i].expiry[1] - t >= 40 }
       IN  IF ok = {} THEN obs.selected = None /\ obs.resolved = None
           ELSE /\ obs.selected # None
                /\ \A i \in ok : obs.selected[1].dte <= e[i].expiry[1] - t
                /\ \E i \in ok : obs.selected[1].ts = e[i].expiry[1]

\* C20. Fixed loss: every record of the history has pnl_rs = -(60 x 65),
\* whatever its stop and exit price; the equity curve is 100000, 96100,
\* 92200, ... (entry i, counted from 0, is 100000 - i x 3900); and every step
\* that closes a position adds 1 to consec_losses.
C20_FixedLoss ==
    /\ [](\A h \in 1 .. Len(trade_history) : trade_history[h].pnl_rs = 0 - 3900)
    /\ [](\A i \in 1 .. Len(equity_curve) : equity_curve[i] = 100000 - (i - 1) * 3900)
    /\ [][(obs'.op = "quote" /\ Len(trade_history') = Len(trade_history) + 1)
              => consec_losses' = consec_losses + 1]_vars

====
